---- MODULE Spec2Model ----
(***************************************************************************)
(* A model of the Informix connector for LoopBack: lib/informix.js (the    *)
(* connector, its execution adapter, identifier escaping and the type      *)
(* mapper) and the transaction mixin (beginTransaction, commit, rollback).  *)
(*                                                                         *)
(* The driver (ibm_db) is the environment: every call the connector makes  *)
(* on it stays pending until the driver completes it with an outcome the   *)
(* model chooses, and the completion runs the connector's callback.        *)
(***************************************************************************)
EXTENDS Integers, Sequences, FiniteSets, TLC

VARIABLES
    self,        \* the connector's fields set by the constructor
    ds,          \* dataSource.connecting / dataSource.connected
    connection,  \* self.connection: 0 (undefined) or a driver connection id
    conns,       \* the driver's connections, by id
    connects,    \* one record per connect() call
    execs,       \* one record per executeSQL() call
    txs,         \* one record per beginTransaction() call
    ticks,       \* the process.nextTick queue
    table,       \* the rows of the model's table in the database: id -> name
    upserts,     \* one record per updateOrCreate() call
    esc,         \* an escapeName call: its argument and its result
    col,         \* a column value on its way to the database and back
    lim,         \* a buildLimit call: its arguments and the clause it returns
    page,        \* an applyPagination call: its filter and the statement
    mergeSql     \* the statement updateOrCreate composes, merge by merge

vars == <<self, ds, connection, conns, connects, execs, txs, ticks,
          table, upserts, esc, col, lim, page, mergeSql>>

----------------------------------------------------------------------------
(* Bounds of the model *)

MaxConnect == 2
MaxExec == 2
MaxTx == 2
MaxRows == 2
MaxUpsert == 2
MaxLimit == 11
MaxOffset == 2
MaxFields == 3

----------------------------------------------------------------------------
(* Values *)

Undefined == "undefined"
NoError == "none"

\* no call of the function has been made
NoCall == [pc |-> "idle"]

\* the model's ids and names, and the table with no row
Ids == {5, 6}
Names == {"a", "b"}
Absent == "absent"
EmptyTable == [i \in Ids |-> Absent]

READ_COMMITTED == "READ COMMITTED"
SERIALIZABLE == "SERIALIZABLE"

\* what a caller may pass as isolationLevel
IsolationLevels == {READ_COMMITTED, SERIALIZABLE, "invalid", Undefined}

\* the settings objects the constructor is given: each setting present or not
SettingNames == {"hostname", "port", "username", "password", "protocol"}

SettingsChoices ==
    { s \in [SettingNames \cup {"useLimitOffset"} -> BOOLEAN] :
        /\ Cardinality({n \in SettingNames : ~s[n]}) <= 1
        /\ s["useLimitOffset"] => \A n \in SettingNames : s[n] }

\* function Informix(settings)
Informix(settings) ==
    [ hostname       |-> IF settings["hostname"] THEN "set" ELSE Undefined,
      username       |-> IF settings["username"] THEN "set" ELSE Undefined,
      password       |-> IF settings["password"] THEN "set" ELSE Undefined,
      portnumber     |-> IF settings["port"] THEN "set" ELSE Undefined,
      protocol       |-> IF settings["protocol"] THEN "set" ELSE "TCPIP",
      useLimitOffset |-> settings["useLimitOffset"],
      settings       |-> settings ]

----------------------------------------------------------------------------
(* connect *)

\* the condition with the test of the password left out
InvalidConnectionString_NoPassword(c) ==
    \/ c.hostname = Undefined
    \/ c.portnumber = Undefined
    \/ c.username = Undefined
    \/ c.protocol = Undefined

\* the condition under which connect refuses to connect
InvalidConnectionString(c) ==
    \/ c.hostname = Undefined
    \/ c.portnumber = Undefined
    \/ c.username = Undefined
    \/ c.password = Undefined
    \/ c.protocol = Undefined

\* a connection the driver has just opened
NewConnection == [closed |-> FALSE, closeCalls |-> 0, issued |-> <<>>]

\* Informix.prototype.connect(cb)
connect(hasCb) ==
    /\ Len(connects) < MaxConnect
    /\ IF InvalidConnectionString(self)
       THEN /\ connects' = Append(connects,
                 [hasCb |-> hasCb, st |-> "refused", opens |-> 0,
                  cbCount |-> IF hasCb THEN 1 ELSE 0,
                  cbErr |-> Undefined, cbCon |-> 0])
            /\ UNCHANGED ds
       ELSE /\ ds' = [ds EXCEPT !.connecting = TRUE]
            /\ connects' = Append(connects,
                 [hasCb |-> hasCb, st |-> "opening", opens |-> 1,
                  cbCount |-> 0, cbErr |-> Undefined, cbCon |-> 0])
    /\ UNCHANGED <<self, connection, conns, execs, txs, ticks>>
    /\ UNCHANGED <<table, upserts, esc, col>>
    /\ UNCHANGED <<lim, page, mergeSql>>

\* the callback connect gives to self.client.open
connectOpened(k, err) ==
    /\ ticks = <<>>
    /\ k \in 1..Len(connects)
    /\ connects[k].st = "opening"
    /\ IF err # NoError
       THEN /\ ds' = [ds EXCEPT !.connected = FALSE, !.connecting = FALSE,
                                !.errors = @ + 1]
            /\ connects' = [connects EXCEPT ![k].st = "done",
                 ![k].cbCount = IF connects[k].hasCb THEN @ + 1 ELSE @,
                 ![k].cbErr = IF connects[k].hasCb THEN err ELSE @]
            /\ UNCHANGED <<connection, conns>>
       ELSE /\ conns' = Append(conns, NewConnection)
            /\ connection' = Len(conns) + 1
            /\ ds' = [ds EXCEPT !.connected = TRUE, !.connecting = FALSE]
            /\ connects' = [connects EXCEPT ![k].st = "done",
                 ![k].cbCount = IF connects[k].hasCb THEN @ + 1 ELSE @,
                 ![k].cbErr = IF connects[k].hasCb THEN err ELSE @,
                 ![k].cbCon = IF connects[k].hasCb THEN Len(conns) + 1 ELSE @]
    /\ UNCHANGED <<self, execs, txs, ticks>>
    /\ UNCHANGED <<table, upserts, esc, col>>
    /\ UNCHANGED <<lim, page, mergeSql>>

----------------------------------------------------------------------------
(* executeSQL and updateOrCreate *)

\* A statement: what it does, the LIMIT and OFFSET tokens of its text (0: the
\* text has no such token) and, for a MERGE, the candidate row
Select(limit, offset) ==
    [op |-> "SELECT", limit |-> limit, offset |-> offset, id |-> 0, name |-> ""]

\* the statement updateOrCreate builds: MERGE INTO ... USING (VALUES ...) ON
\* (MT.id = VT.id) WHEN NOT MATCHED THEN INSERT ... WHEN MATCHED THEN UPDATE SET
Merge(id, name) ==
    [op |-> "MERGE", limit |-> 0, offset |-> 0, id |-> id, name |-> name]

\* the statements callers execute
SqlTexts == { Select(0, 0), Select(1, 1) }

\* the rows the driver returns for a successful query: a MERGE returns no row
DriverRows(stmt) == IF stmt.op = "MERGE" THEN <<>> ELSE [i \in 1..MaxRows |-> i]

\* what the database holds once the driver has run the statement
Engine(stmt, tbl) ==
    IF stmt.op = "MERGE" THEN [tbl EXCEPT ![stmt.id] = stmt.name] ELSE tbl

Min(a, b) == IF a < b THEN a ELSE b

\* Array.prototype.slice(start, end) on a sequence
Slice(data, start, end) == SubSeq(data, start + 1, Min(end, Len(data)))

\* the array of rows that conn.query hands to its callback, as an object:
\* its own properties
RowArray(data) == [length |-> Len(data), rows |-> data]

\* info[name]: undefined when info has no such property
Property(info, name) ==
    IF name \in DOMAIN info
    THEN [defined |-> TRUE, value |-> info[name]]
    ELSE [defined |-> FALSE]

\* the callback updateOrCreate gives to self.execute, applied to the record u
\* of the call
updateOrCreateCallback(u, err, info) ==
    [u EXCEPT !.cbCount = @ + 1,
              !.cbErr = err,
              !.cbId = IF err = NoError /\ Property(RowArray(info), "insertId").defined
                       THEN Property(RowArray(info), "insertId").value ELSE u.id,
              !.isNewInstance =
                  Property(RowArray(info), "affectedRows") = [defined |-> TRUE, value |-> 1]]

\* the caller's callback of an executeSQL call: the application's (owner 0) or
\* the one updateOrCreate gave to self.execute
Callback(owner, err, data) ==
    IF owner = 0
    THEN UNCHANGED upserts
    ELSE upserts' = [upserts EXCEPT ![owner] = updateOrCreateCallback(@, err, data)]

\* the body of Informix.prototype.executeSQL(sql, params, options, callback):
\* target is options.transaction (0: none)
executeSQLCall(target, sql, owner) ==
    /\ Len(execs) < MaxExec
    /\ target \in 0..Len(txs)
    /\ target # 0 => txs[target].st = "active"
    /\ LET conn == IF target # 0 THEN txs[target].conn ELSE connection
           strip == ~self.useLimitOffset
           limit == IF strip THEN sql.limit ELSE 0
           offset == IF strip THEN sql.offset ELSE 0
       IN /\ conn # 0
          /\ execs' = Append(execs,
               [conn |-> conn, owner |-> owner, limit |-> limit, offset |-> offset,
                sent |-> IF strip THEN [sql EXCEPT !.limit = 0, !.offset = 0] ELSE sql,
                st |-> "inflight", err |-> Undefined, more |-> FALSE,
                cbCount |-> 0, cbErr |-> Undefined, cbData |-> <<>>])
          /\ conns' = [conns EXCEPT ![conn].issued = Append(@, Len(execs) + 1)]

\* Informix.prototype.executeSQL called by the application
executeSQL(target, sql) ==
    /\ executeSQLCall(target, sql, 0)
    /\ UNCHANGED <<self, ds, connection, connects, txs, ticks>>
    /\ UNCHANGED <<table, upserts, esc, col>>
    /\ UNCHANGED <<lim, page, mergeSql>>

\* Informix.prototype.updateOrCreate(model, data, options, callback) on the
\* default connection: the MERGE goes to self.execute, which is executeSQL
updateOrCreate(id, name) ==
    /\ Len(upserts) < MaxUpsert
    /\ upserts' = Append(upserts,
         [id |-> id, name |-> name, existed |-> Undefined, cbCount |-> 0,
          cbErr |-> Undefined, cbId |-> id, isNewInstance |-> Undefined])
    /\ executeSQLCall(0, Merge(id, name), Len(upserts) + 1)
    /\ UNCHANGED <<self, ds, connection, connects, txs, ticks>>
    /\ UNCHANGED <<table, esc, col>>
    /\ UNCHANGED <<lim, page, mergeSql>>

\* the driver completes a query: it has run the statement, unless it reports
\* an error, and calls the callback executeSQL gave to conn.query
queryDone(e, err, more) ==
    /\ ticks = <<>>
    /\ e \in 1..Len(execs)
    /\ execs[e].st = "inflight"
    /\ err # NoError => ~more
    /\ LET x == execs[e]
           rows == IF err # NoError THEN <<>> ELSE DriverRows(x.sent)
           data == IF x.offset # 0 \/ x.limit # 0
                   THEN Slice(rows, x.offset, x.offset + x.limit)
                   ELSE rows
       IN /\ table' = IF err = NoError THEN Engine(x.sent, table) ELSE table
          /\ ticks' = IF err = NoError /\ more
                      THEN Append(ticks, [kind |-> "executeSQL", id |-> e])
                      ELSE ticks
          /\ execs' = [execs EXCEPT ![e] =
               [x EXCEPT !.st = "done", !.err = err, !.more = more,
                         !.cbCount = @ + 1, !.cbErr = err, !.cbData = data]]
          /\ IF x.owner = 0
             THEN UNCHANGED upserts
             ELSE upserts' = [upserts EXCEPT ![x.owner] =
                    updateOrCreateCallback(
                      [@ EXCEPT !.existed =
                          IF err = NoError THEN table[x.sent.id] # Absent ELSE @],
                      err, data)]
    /\ UNCHANGED <<self, ds, connection, conns, connects, txs>>
    /\ UNCHANGED <<esc, col>>
    /\ UNCHANGED <<lim, page, mergeSql>>

\* the function executeSQL schedules with process.nextTick when more is set:
\* it calls the caller's callback with the same arguments
executeSQLTick ==
    /\ ticks # <<>>
    /\ Head(ticks).kind = "executeSQL"
    /\ LET e == Head(ticks).id
       IN /\ execs' = [execs EXCEPT ![e].cbCount = @ + 1]
          /\ Callback(execs[e].owner, execs[e].cbErr, execs[e].cbData)
    /\ ticks' = Tail(ticks)
    /\ UNCHANGED <<self, ds, connection, conns, connects, txs>>
    /\ UNCHANGED <<table, esc, col>>
    /\ UNCHANGED <<lim, page, mergeSql>>

----------------------------------------------------------------------------
(* The transaction mixin *)

\* the condition with an absent level let through
InvalidIsolationLevel_AbsentAllowed(isolationLevel) ==
    /\ isolationLevel # Undefined
    /\ isolationLevel # READ_COMMITTED
    /\ isolationLevel # SERIALIZABLE

\* the condition under which beginTransaction rejects the level
InvalidIsolationLevel(isolationLevel) ==
    /\ isolationLevel # READ_COMMITTED
    /\ isolationLevel # SERIALIZABLE

\* if (isolationLevel): undefined, null, '' and 0 are falsy
Truthy(isolationLevel) == isolationLevel # Undefined

NewTx(isolationLevel) ==
    [ iso |-> isolationLevel, st |-> "new", conn |-> 0, opens |-> 0,
      beginErr |-> Undefined,
      cbCount |-> 0, cbErr |-> Undefined, cbStatus |-> 0, cbConn |-> 0,
      op |-> "none", finErr |-> Undefined,
      finCbCount |-> 0, finCbErr |-> Undefined ]

\* Informix.prototype.beginTransaction(isolationLevel, cb)
beginTransaction(isolationLevel) ==
    /\ Len(txs) < MaxTx
    /\ IF InvalidIsolationLevel(isolationLevel)
       THEN /\ txs' = Append(txs, [NewTx(isolationLevel) EXCEPT !.st = "rejecting"])
            /\ ticks' = Append(ticks, [kind |-> "beginTransaction", id |-> Len(txs) + 1])
       ELSE /\ txs' = Append(txs, [NewTx(isolationLevel) EXCEPT
                                     !.st = "opening", !.opens = 1])
            /\ UNCHANGED ticks
    /\ UNCHANGED <<self, ds, connection, conns, connects, execs>>
    /\ UNCHANGED <<table, upserts, esc, col>>
    /\ UNCHANGED <<lim, page, mergeSql>>

\* the function beginTransaction schedules with process.nextTick
beginTransactionTick ==
    /\ ticks # <<>>
    /\ Head(ticks).kind = "beginTransaction"
    /\ LET t == Head(ticks).id
       IN txs' = [txs EXCEPT ![t].st = "rejected", ![t].cbCount = @ + 1,
                             ![t].cbErr = "Invalid isolationLevel",
                             ![t].cbStatus = 400]
    /\ ticks' = Tail(ticks)
    /\ UNCHANGED <<self, ds, connection, conns, connects, execs>>
    /\ UNCHANGED <<table, upserts, esc, col>>
    /\ UNCHANGED <<lim, page, mergeSql>>

\* the callback beginTransaction gives to self.client.open
transactionOpened(t, err) ==
    /\ ticks = <<>>
    /\ t \in 1..Len(txs)
    /\ txs[t].st = "opening"
    /\ IF err # NoError
       THEN /\ txs' = [txs EXCEPT ![t].st = "openFailed", ![t].cbCount = @ + 1,
                                  ![t].cbErr = err]
            /\ UNCHANGED conns
       ELSE /\ conns' = Append(conns, NewConnection)
            /\ txs' = [txs EXCEPT ![t].st = "beginning", ![t].conn = Len(conns) + 1]
    /\ UNCHANGED <<self, ds, connection, connects, execs, ticks>>
    /\ UNCHANGED <<table, upserts, esc, col>>
    /\ UNCHANGED <<lim, page, mergeSql>>

\* the callback beginTransaction gives to connection.beginTransaction
transactionBegun(t, err) ==
    /\ ticks = <<>>
    /\ t \in 1..Len(txs)
    /\ txs[t].st = "beginning"
    /\ IF Truthy(txs[t].iso)
       THEN txs' = [txs EXCEPT ![t].st = "isolating", ![t].beginErr = err]
       ELSE txs' = [txs EXCEPT ![t].st = IF err = NoError THEN "active" ELSE "failed",
                               ![t].beginErr = err, ![t].cbCount = @ + 1,
                               ![t].cbErr = err, ![t].cbConn = txs[t].conn]
    /\ UNCHANGED <<self, ds, connection, conns, connects, execs, ticks>>
    /\ UNCHANGED <<table, upserts, esc, col>>
    /\ UNCHANGED <<lim, page, mergeSql>>

\* the callback beginTransaction gives to connection.query(SET CURRENT ISOLATION)
isolationSet(t, err) ==
    /\ ticks = <<>>
    /\ t \in 1..Len(txs)
    /\ txs[t].st = "isolating"
    /\ txs' = [txs EXCEPT ![t].st = IF err = NoError THEN "active" ELSE "failed",
                          ![t].cbCount = @ + 1,
                          ![t].cbErr = err, ![t].cbConn = txs[t].conn]
    /\ UNCHANGED <<self, ds, connection, conns, connects, execs, ticks>>
    /\ UNCHANGED <<table, upserts, esc, col>>
    /\ UNCHANGED <<lim, page, mergeSql>>

\* Informix.prototype.commit(connection, cb)
commit(t) ==
    /\ t \in 1..Len(txs)
    /\ txs[t].st = "active"
    /\ txs' = [txs EXCEPT ![t].st = "finalizing", ![t].op = "commit"]
    /\ UNCHANGED <<self, ds, connection, conns, connects, execs, ticks>>
    /\ UNCHANGED <<table, upserts, esc, col>>
    /\ UNCHANGED <<lim, page, mergeSql>>

\* Informix.prototype.rollback(connection, cb)
rollback(t) ==
    /\ t \in 1..Len(txs)
    /\ txs[t].st = "active"
    /\ txs' = [txs EXCEPT ![t].st = "finalizing", ![t].op = "rollback"]
    /\ UNCHANGED <<self, ds, connection, conns, connects, execs, ticks>>
    /\ UNCHANGED <<table, upserts, esc, col>>
    /\ UNCHANGED <<lim, page, mergeSql>>

\* the finalization callback without its test of err: the connection is
\* closed whatever the finalization call reported
finalized_AlwaysClose(t, err) ==
    /\ conns' = [conns EXCEPT ![txs[t].conn].closeCalls = @ + 1]
    /\ txs' = [txs EXCEPT ![t].st = "closing", ![t].finErr = err]

\* the callback commit gives to connection.commitTransaction, and rollback to
\* connection.rollbackTransaction
finalized(t, err) ==
    IF err # NoError
    THEN /\ txs' = [txs EXCEPT ![t].st = "finFailed", ![t].finErr = err,
                               ![t].finCbCount = @ + 1, ![t].finCbErr = err]
         /\ UNCHANGED conns
    ELSE /\ conns' = [conns EXCEPT ![txs[t].conn].closeCalls = @ + 1]
         /\ txs' = [txs EXCEPT ![t].st = "closing", ![t].finErr = err]

commitTransactionDone(t, err) ==
    /\ ticks = <<>>
    /\ t \in 1..Len(txs)
    /\ txs[t].st = "finalizing"
    /\ txs[t].op = "commit"
    /\ finalized(t, err)
    /\ UNCHANGED <<self, ds, connection, connects, execs, ticks>>
    /\ UNCHANGED <<table, upserts, esc, col>>
    /\ UNCHANGED <<lim, page, mergeSql>>

rollbackTransactionDone(t, err) ==
    /\ ticks = <<>>
    /\ t \in 1..Len(txs)
    /\ txs[t].st = "finalizing"
    /\ txs[t].op = "rollback"
    /\ finalized(t, err)
    /\ UNCHANGED <<self, ds, connection, connects, execs, ticks>>
    /\ UNCHANGED <<table, upserts, esc, col>>
    /\ UNCHANGED <<lim, page, mergeSql>>

\* the driver completes connection.close(cb): cb is the caller's callback
closed(t, err) ==
    /\ ticks = <<>>
    /\ t \in 1..Len(txs)
    /\ txs[t].st = "closing"
    /\ conns' = [conns EXCEPT ![txs[t].conn].closed = TRUE]
    /\ txs' = [txs EXCEPT ![t].st = IF txs[t].op = "commit" THEN "committed"
                                                              ELSE "rolledBack",
                          ![t].finCbCount = @ + 1, ![t].finCbErr = err]
    /\ UNCHANGED <<self, ds, connection, connects, execs, ticks>>
    /\ UNCHANGED <<table, upserts, esc, col>>
    /\ UNCHANGED <<lim, page, mergeSql>>

----------------------------------------------------------------------------
(* escapeName.  A string is the sequence of its characters. *)

MaxNameLen == 4

Quote == "\""

NameChars == {"a", "b", Quote}

Identifiers == UNION { [1..n -> NameChars] : n \in 0..MaxNameLen }

\* String.prototype.replace(/["]/g, '""'): a new string, every double quote
\* doubled
RECURSIVE ReplaceQuotes(_)
ReplaceQuotes(name) ==
    IF name = <<>> THEN <<>>
    ELSE (IF Head(name) = Quote THEN <<Quote, Quote>> ELSE <<Head(name)>>)
         \o ReplaceQuotes(Tail(name))

\* Informix.prototype.escapeName(name): the string replace returns is dropped
escapeName(name) ==
    IF name = <<>> THEN name
    ELSE LET dropped == ReplaceQuotes(name)
         IN <<Quote>> \o name \o <<Quote>>

\* a call of escapeName
escapeNameCall ==
    /\ esc.pc = "called"
    /\ esc' = [esc EXCEPT !.pc = "returned", !.result = escapeName(esc.name)]
    /\ UNCHANGED <<self, ds, connection, conns, connects, execs, txs, ticks>>
    /\ UNCHANGED <<table, upserts, col>>
    /\ UNCHANGED <<lim, page, mergeSql>>

----------------------------------------------------------------------------
(* JavaScript values and the conversions the type mapper calls.  A value   *)
(* is a record of one shape; t tells which field holds it.                 *)

ZeroDate == [year |-> 0, month |-> 0, date |-> 0, hours |-> 0, minutes |-> 0,
             seconds |-> 0, ms |-> 0]

Value == [t |-> "", n |-> 0, s |-> <<>>, b |-> FALSE, a |-> <<>>, o |-> <<>>,
          d |-> ZeroDate]

Num(n) == [Value EXCEPT !.t = "number", !.n = n]
Str(s) == [Value EXCEPT !.t = "string", !.s = s]
Bool(b) == [Value EXCEPT !.t = "boolean", !.b = b]
Arr(a) == [Value EXCEPT !.t = "array", !.a = a]
\* an object: the sequence of its <<key, value>> pairs
Obj(o) == [Value EXCEPT !.t = "object", !.o = o]
\* a Date: its local-time fields, month as getMonth() gives it
DateOf(d) == [Value EXCEPT !.t = "date", !.d = d]
Null == [Value EXCEPT !.t = "null"]
NaN == [Value EXCEPT !.t = "NaN"]
\* the value undefined: an absent argument or property
UndefinedValue == [Value EXCEPT !.t = "undefined"]
InvalidDate == [Value EXCEPT !.t = "Invalid Date"]
SyntaxError == [Value EXCEPT !.t = "throws SyntaxError"]
\* new ParameterizedSQL('DEFAULT')
DefaultMarker == [Value EXCEPT !.t = "ParameterizedSQL", !.s = <<"D", "E", "F", "A", "U", "L", "T">>]

Digits == <<"0", "1", "2", "3", "4", "5", "6", "7", "8", "9">>
IsDigit(c) == \E i \in 1..10 : Digits[i] = c
DigitValue(c) == (CHOOSE i \in 1..10 : Digits[i] = c) - 1

TrueText == <<"t", "r", "u", "e">>
FalseText == <<"f", "a", "l", "s", "e">>
NullText == <<"n", "u", "l", "l">>
UndefinedText == <<"u", "n", "d", "e", "f", "i", "n", "e", "d">>
NaNText == <<"N", "a", "N">>
ObjectText == <<"[", "o", "b", "j", "e", "c", "t", " ", "O", "b", "j", "e", "c", "t", "]">>

\* the decimal text of a natural number
RECURSIVE NumberToString(_)
NumberToString(n) ==
    IF n < 10 THEN <<Digits[n + 1]>>
    ELSE NumberToString(n \div 10) \o <<Digits[(n % 10) + 1]>>

\* the number a run of digits denotes
RECURSIVE StringToNumber(_)
StringToNumber(run) ==
    IF run = <<>> THEN 0
    ELSE 10 * StringToNumber(SubSeq(run, 1, Len(run) - 1)) + DigitValue(run[Len(run)])

\* String(val)
RECURSIVE StringOf(_)
RECURSIVE JoinStrings(_)
StringOf(v) ==
    CASE v.t = "number" -> NumberToString(v.n)
      [] v.t = "string" -> v.s
      [] v.t = "boolean" -> IF v.b THEN TrueText ELSE FalseText
      [] v.t = "null" -> NullText
      [] v.t = "array" -> JoinStrings(v.a)
      [] v.t = "undefined" -> UndefinedText
      [] v.t = "NaN" -> NaNText
      [] OTHER -> ObjectText

\* Array.prototype.join(','): a null element gives the empty string
JoinStrings(a) ==
    IF a = <<>> THEN <<>>
    ELSE (IF a[1].t = "null" THEN <<>> ELSE StringOf(a[1]))
         \o (IF Len(a) > 1 THEN <<",">> \o JoinStrings(Tail(a)) ELSE <<>>)

\* JSON.stringify(val)
RECURSIVE JSONstringify(_)
RECURSIVE StringifyElements(_)
RECURSIVE StringifyMembers(_)
JSONstringify(v) ==
    CASE v.t = "number" -> NumberToString(v.n)
      [] v.t = "string" -> <<"\"">> \o v.s \o <<"\"">>
      [] v.t = "boolean" -> IF v.b THEN TrueText ELSE FalseText
      [] v.t = "array" -> <<"[">> \o StringifyElements(v.a) \o <<"]">>
      [] v.t = "object" -> <<"{">> \o StringifyMembers(v.o) \o <<"}">>
      [] OTHER -> NullText

StringifyElements(a) ==
    IF a = <<>> THEN <<>>
    ELSE JSONstringify(a[1])
         \o (IF Len(a) > 1 THEN <<",">> \o StringifyElements(Tail(a)) ELSE <<>>)

StringifyMembers(o) ==
    IF o = <<>> THEN <<>>
    ELSE <<"\"">> \o o[1][1] \o <<"\"", ":">> \o JSONstringify(o[1][2])
         \o (IF Len(o) > 1 THEN <<",">> \o StringifyMembers(Tail(o)) ELSE <<>>)

\* the longest prefix of s whose characters satisfy: digits, or no quote
RECURSIVE DigitRun(_)
DigitRun(s) ==
    IF s = <<>> \/ ~IsDigit(Head(s)) THEN <<>> ELSE <<Head(s)>> \o DigitRun(Tail(s))

RECURSIVE UntilQuote(_)
UntilQuote(s) ==
    IF s = <<>> \/ Head(s) = "\"" THEN <<>> ELSE <<Head(s)>> \o UntilQuote(Tail(s))

HasPrefix(s, p) == Len(s) >= Len(p) /\ SubSeq(s, 1, Len(p)) = p
Drop(s, n) == SubSeq(s, n + 1, Len(s))

ParseFail == [ok |-> FALSE, v |-> Null, rest |-> <<>>]
Parsed(v, rest) == [ok |-> TRUE, v |-> v, rest |-> rest]

\* JSON.parse's grammar on a text without white space: a value at the head
\* of s, and what follows it
RECURSIVE ParseValue(_)
RECURSIVE ParseElements(_, _)
RECURSIVE ParseMembers(_, _)
ParseValue(s) ==
    IF s = <<>> THEN ParseFail
    ELSE IF IsDigit(Head(s))
    THEN LET run == DigitRun(s)
         IN IF Len(run) > 1 /\ run[1] = "0" THEN ParseFail
            ELSE Parsed(Num(StringToNumber(run)), Drop(s, Len(run)))
    ELSE IF Head(s) = "\""
    THEN LET body == UntilQuote(Tail(s))
         IN IF Len(body) = Len(s) - 1 THEN ParseFail
            ELSE Parsed(Str(body), Drop(s, Len(body) + 2))
    ELSE IF HasPrefix(s, TrueText) THEN Parsed(Bool(TRUE), Drop(s, 4))
    ELSE IF HasPrefix(s, FalseText) THEN Parsed(Bool(FALSE), Drop(s, 5))
    ELSE IF HasPrefix(s, NullText) THEN Parsed(Null, Drop(s, 4))
    ELSE IF Head(s) = "["
    THEN IF Len(s) >= 2 /\ s[2] = "]" THEN Parsed(Arr(<<>>), Drop(s, 2))
         ELSE ParseElements(Tail(s), <<>>)
    ELSE IF Head(s) = "{"
    THEN IF Len(s) >= 2 /\ s[2] = "}" THEN Parsed(Obj(<<>>), Drop(s, 2))
         ELSE ParseMembers(Tail(s), <<>>)
    ELSE ParseFail

ParseElements(s, acc) ==
    LET r == ParseValue(s)
    IN IF ~r.ok \/ r.rest = <<>> THEN ParseFail
       ELSE IF Head(r.rest) = "," THEN ParseElements(Tail(r.rest), Append(acc, r.v))
       ELSE IF Head(r.rest) = "]" THEN Parsed(Arr(Append(acc, r.v)), Tail(r.rest))
       ELSE ParseFail

ParseMembers(s, acc) ==
    LET k == ParseValue(s)
    IN IF ~k.ok \/ k.v.t # "string" \/ k.rest = <<>> \/ Head(k.rest) # ":"
       THEN ParseFail
       ELSE LET r == ParseValue(Tail(k.rest))
            IN IF ~r.ok \/ r.rest = <<>> THEN ParseFail
               ELSE IF Head(r.rest) = ","
               THEN ParseMembers(Tail(r.rest), Append(acc, <<k.v.s, r.v>>))
               ELSE IF Head(r.rest) = "}"
               THEN Parsed(Obj(Append(acc, <<k.v.s, r.v>>)), Tail(r.rest))
               ELSE ParseFail

\* JSON.parse(val): val is first converted to a string
JSONparse(val) ==
    LET r == ParseValue(StringOf(val))
    IN IF r.ok /\ r.rest = <<>> THEN r.v ELSE SyntaxError

\* a text without the spaces at its ends
RECURSIVE TrimSpaces(_)
TrimSpaces(s) ==
    IF s = <<>> THEN s
    ELSE IF Head(s) = " " THEN TrimSpaces(Tail(s))
    ELSE IF s[Len(s)] = " " THEN TrimSpaces(SubSeq(s, 1, Len(s) - 1))
    ELSE s

\* the number a text converts to: 0 for an empty or blank text
StringNumber(s) ==
    LET trimmed == TrimSpaces(s)
    IN IF trimmed = <<>> THEN Num(0)
       ELSE IF DigitRun(trimmed) = trimmed THEN Num(StringToNumber(trimmed)) ELSE NaN

\* Number(val)
ToNumber(val) ==
    CASE val.t = "number" -> val
      [] val.t = "boolean" -> Num(IF val.b THEN 1 ELSE 0)
      [] val.t = "string" -> StringNumber(val.s)
      [] val.t = "null" -> Num(0)
      [] val.t = "array" -> StringNumber(JoinStrings(val.a))
      [] OTHER -> NaN

\* Boolean(val)
ToBoolean(val) ==
    CASE val.t = "number" -> Bool(val.n # 0)
      [] val.t = "boolean" -> val
      [] val.t = "string" -> Bool(val.s # <<>>)
      [] val.t \in {"null", "NaN", "undefined"} -> Bool(FALSE)
      [] OTHER -> Bool(TRUE)

\* the runs of digits of a text, and the characters between them
RECURSIVE DigitRuns(_)
DigitRuns(s) ==
    IF s = <<>> THEN <<>>
    ELSE IF IsDigit(Head(s))
    THEN <<DigitRun(s)>> \o DigitRuns(Drop(s, Len(DigitRun(s))))
    ELSE DigitRuns(Tail(s))

RECURSIVE Separators(_)
Separators(s) ==
    IF s = <<>> THEN <<>>
    ELSE IF IsDigit(Head(s)) THEN Separators(Tail(s))
    ELSE <<Head(s)>> \o Separators(Tail(s))

\* the milliseconds a fraction of a second denotes: its first three digits
FractionToMs(f) ==
    LET d(i) == IF i <= Len(f) THEN DigitValue(f[i]) ELSE 0
    IN 100 * d(1) + 10 * d(2) + d(3)

\* new Date(val) on a string: the date-time formats Date.parse reads,
\* YYYY-MM-DDTHH:MM:SS.fff and YYYY-MM-DD HH:MM:SS.fff; any other text is
\* an Invalid Date
NewDate(val) ==
    IF val.t # "string" THEN InvalidDate
    ELSE LET f == DigitRuns(val.s)
             seps == Separators(val.s)
         IN IF /\ Len(f) = 7
               /\ seps \in { <<"-", "-", "T", ":", ":", ".">>,
                             <<"-", "-", " ", ":", ":", ".">> }
               /\ Len(val.s) = Len(seps) + Len(f[1]) + Len(f[2]) + Len(f[3])
                     + Len(f[4]) + Len(f[5]) + Len(f[6]) + Len(f[7])
               /\ Len(f[1]) = 4
               /\ \A i \in 2..6 : Len(f[i]) = 2
               /\ IsDigit(val.s[1]) /\ IsDigit(val.s[Len(val.s)])
            THEN DateOf([year |-> StringToNumber(f[1]),
                         month |-> StringToNumber(f[2]) - 1,
                         date |-> StringToNumber(f[3]),
                         hours |-> StringToNumber(f[4]),
                         minutes |-> StringToNumber(f[5]),
                         seconds |-> StringToNumber(f[6]),
                         ms |-> FractionToMs(f[7])])
            ELSE InvalidDate

----------------------------------------------------------------------------
(* The type mapper *)

\* fillZeros(v) of dateToInformix
fillZeros(v) == IF v < 10 THEN <<"0">> \o NumberToString(v) ELSE NumberToString(v)

\* dateToInformix(val): YYYY-MM-DD-HH.MM.SS.ffffff
dateToInformix(val) ==
    LET dateStr == NumberToString(val.d.year) \o <<"-">>
                   \o fillZeros(val.d.month + 1) \o <<"-">>
                   \o fillZeros(val.d.date) \o <<"-">>
                   \o fillZeros(val.d.hours) \o <<".">>
                   \o fillZeros(val.d.minutes) \o <<".">>
                   \o fillZeros(val.d.seconds) \o <<".">>
        ms == IF val.d.ms < 10 THEN <<"0", "0", "0", "0", "0">> \o NumberToString(val.d.ms)
              ELSE IF val.d.ms < 100 THEN <<"0", "0", "0", "0">> \o NumberToString(val.d.ms)
              ELSE <<"0", "0", "0">> \o NumberToString(val.d.ms)
    IN Str(dateStr \o ms)

\* Informix.prototype.toColumnValue(prop, val)
toColumnValue(prop, val) ==
    IF val = Null
    THEN IF prop.id THEN DefaultMarker ELSE Null
    ELSE CASE prop.type = "Boolean" -> ToNumber(val)
           [] prop.type \in {"GeoPoint", "Point", "List", "Object", "ModelConstructor"} ->
                Str(JSONstringify(val))
           [] prop.type = "JSON" -> Str(StringOf(val))
           [] prop.type = "Date" -> dateToInformix(val)
           [] OTHER -> val

\* Informix.prototype.fromColumnValue(prop, val)
fromColumnValue(prop, val) ==
    IF val = Null
    THEN val
    ELSE CASE prop.type = "Number" -> ToNumber(val)
           [] prop.type = "String" -> Str(StringOf(val))
           [] prop.type = "Date" -> NewDate(val)
           [] prop.type = "Boolean" -> ToBoolean(val)
           [] prop.type \in {"GeoPoint", "Point", "List", "Array", "Object", "JSON"} ->
                JSONparse(val)
           [] OTHER -> val

\* the property types of the model, and values of each
PropertyTypes == {"Number", "String", "Boolean", "Date", "JSON", "Object",
                  "Array", "List", "GeoPoint", "Point"}

Key(c) == <<c>>
Lat == <<"l", "a", "t">>
Lng == <<"l", "n", "g">>

Arrays == { Arr(<<>>), Arr(<<Num(1)>>), Arr(<<Num(1), Num(2)>>), Arr(<<Str(<<"a">>)>>) }

Objects == { Obj(<<>>), Obj(<< <<Key("a"), Num(1)>> >>),
             Obj(<< <<Key("a"), Str(<<"b">>)>>, <<Key("b"), Arr(<<Num(1)>>)>> >>) }

Points == { Obj(<< <<Lat, Num(1)>>, <<Lng, Num(2)>> >>),
            Obj(<< <<Lat, Num(40)>>, <<Lng, Num(0)>> >>) }

Dates == { DateOf([year |-> 2016, month |-> mo, date |-> dd, hours |-> h,
                   minutes |-> 5, seconds |-> 59, ms |-> ms]) :
             mo \in {0, 11}, dd \in {9, 31}, h \in {0, 23}, ms \in {0, 7, 45, 123} }

ValuesOf(type) ==
    CASE type = "Number" -> { Num(0), Num(7), Num(42) }
      [] type = "String" -> { Str(<<>>), Str(<<"a">>), Str(<<"a", "b">>), Str(<<"4", "2">>) }
      [] type = "Boolean" -> { Bool(TRUE), Bool(FALSE) }
      [] type = "Date" -> Dates
      [] type = "JSON" -> { Num(7), Str(<<"a">>), Bool(TRUE) } \cup Arrays \cup Objects
      [] type = "Object" -> Objects
      [] type \in {"Array", "List"} -> Arrays
      [] OTHER -> Points

\* a call of toColumnValue: the value is bound to its column
toColumnValueCall ==
    /\ col.pc = "called"
    /\ col' = [col EXCEPT !.pc = "stored", !.db = toColumnValue(col.prop, col.val)]
    /\ UNCHANGED <<self, ds, connection, conns, connects, execs, txs, ticks>>
    /\ UNCHANGED <<table, upserts, esc>>
    /\ UNCHANGED <<lim, page, mergeSql>>

\* a call of fromColumnValue on the column value; the DEFAULT marker is not
\* a value a column gives back
fromColumnValueCall ==
    /\ col.pc = "stored"
    /\ col.db # DefaultMarker
    /\ col' = [col EXCEPT !.pc = "loaded", !.out = fromColumnValue(col.prop, col.db)]
    /\ UNCHANGED <<self, ds, connection, conns, connects, execs, txs, ticks>>
    /\ UNCHANGED <<table, upserts, esc>>
    /\ UNCHANGED <<lim, page, mergeSql>>

----------------------------------------------------------------------------
(* Pagination *)

FetchFirstText == <<"F", "E", "T", "C", "H", " ", "F", "I", "R", "S", "T", " ">>
RowsOnlyText == <<" ", "R", "O", "W", "S", " ", "O", "N", "L", "Y">>
OffsetText == <<"O", "F", "F", "S", "E", "T", " ">>
LimitText == <<"L", "I", "M", "I", "T", " ">>

\* isNaN(val): the value is converted to a number first
isNaN(val) == ToNumber(val).t = "NaN"

\* if (isNaN(val)) { val = 0; }
NaNToZero(val) == IF isNaN(val) THEN Num(0) ELSE val

\* function buildLimit(limit, offset)
buildLimit(limitArg, offsetArg) ==
    LET limit == NaNToZero(limitArg)
        offset == NaNToZero(offsetArg)
    IN IF ~ToBoolean(limit).b /\ ~ToBoolean(offset).b
       THEN <<>>
       ELSE IF ToBoolean(limit).b /\ ~ToBoolean(offset).b
       THEN FetchFirstText \o StringOf(limit) \o RowsOnlyText
       ELSE IF ToBoolean(offset).b /\ ~ToBoolean(limit).b
       THEN OffsetText \o StringOf(offset)
       ELSE LimitText \o StringOf(limit) \o <<" ">> \o OffsetText \o StringOf(offset)

\* what a caller may pass as limit, offset or skip: the non-negative integers
\* up to MaxLimit, absent, and values that are not numbers
Naturals0 == { Num(n) : n \in 0..MaxLimit }
NotNumbers == { UndefinedValue, Null, NaN, Str(<<>>), Str(<<"a">>), Str(<<" ">>),
                Bool(TRUE), Bool(FALSE), Arr(<<>>), Obj(<<>>) }
LimitValues == Naturals0 \cup NotNumbers \cup { Str(<<"7">>) }

\* a call of buildLimit
buildLimitCall ==
    /\ lim.pc = "called"
    /\ lim' = [lim EXCEPT !.pc = "returned", !.clause = buildLimit(lim.limit, lim.offset)]
    /\ UNCHANGED <<self, ds, connection, conns, connects, execs, txs, ticks>>
    /\ UNCHANGED <<table, upserts, esc, col, page, mergeSql>>

\* a ParameterizedSQL: a text and the parameters bound to its placeholders.
\* A text is the sequence of its pieces; a piece is a character or a run of
\* characters that holds no placeholder
ParameterizedSQL(sql, params) == [sql |-> sql, params |-> params]

\* ParameterizedSQL.append(currentStmt, stmt, separator)
append(currentStmt, ps, separator) ==
    [sql |-> (IF currentStmt.sql # <<>> THEN currentStmt.sql \o separator
              ELSE currentStmt.sql) \o ps.sql,
     params |-> currentStmt.params \o ps.params]

\* stmt.merge(ps), ps a statement or a string: the separator is a space
merge(currentStmt, ps) == append(currentStmt, ps, <<" ">>)

\* a || b
Or(a, b) == IF ToBoolean(a).b THEN a ELSE b

\* the statement applyPagination is given
SelectText == <<"S", "E", "L", "E", "C", "T">>

\* what a filter holds as limit, offset and skip: absent, or an integer
FilterValues == { UndefinedValue } \cup { Num(n) : n \in 0..MaxOffset }

\* Informix.prototype.applyPagination(model, stmt, filter)
applyPagination(currentStmt, filter) ==
    LET limitClause == buildLimit(filter.limit, Or(filter.offset, filter.skip))
    IN merge(currentStmt, ParameterizedSQL(limitClause, <<>>))

\* a call of applyPagination
applyPaginationCall ==
    /\ page.pc = "called"
    /\ page' = [page EXCEPT !.pc = "returned",
                            !.stmt = applyPagination(page.stmt, page.filter)]
    /\ UNCHANGED <<self, ds, connection, conns, connects, execs, txs, ticks>>
    /\ UNCHANGED <<table, upserts, esc, col, lim, mergeSql>>

----------------------------------------------------------------------------
(* The MERGE statement of updateOrCreate *)

\* ParameterizedSQL.PLACEHOLDER
PLACEHOLDER == "?"

\* a string as a statement: what merge makes of a string argument
Text(sql) == ParameterizedSQL(sql, <<>>)

\* ParameterizedSQL.join(sqls, separator)
RECURSIVE joinFrom(_, _, _)
joinFrom(ps, sqls, separator) ==
    IF sqls = <<>> THEN ps
    ELSE joinFrom(append(ps, Head(sqls), separator), Tail(sqls), separator)

join(sqls, separator) == joinFrom(ParameterizedSQL(<<>>, <<>>), sqls, separator)

\* Array.prototype.join(separator) on an array of strings
RECURSIVE JoinTexts(_, _)
JoinTexts(texts, separator) ==
    IF texts = <<>> THEN <<>>
    ELSE IF Len(texts) = 1 THEN texts[1]
    ELSE texts[1] \o separator \o JoinTexts(Tail(texts), separator)

\* definition.properties of the model, in the order of its keys: two id
\* properties and two others
ModelProperties ==
    << [name |-> <<"i", "d">>, type |-> "Number", id |-> TRUE],
       [name |-> <<"n", "a", "m", "e">>, type |-> "String", id |-> FALSE],
       [name |-> <<"k">>, type |-> "String", id |-> TRUE],
       [name |-> <<"a", "g", "e">>, type |-> "Number", id |-> FALSE] >>

\* props[key]: the index of the property named key, 0 when there is none
PropertyIndex(key) ==
    IF \E i \in 1..Len(ModelProperties) : ModelProperties[i].name = key
    THEN CHOOSE i \in 1..Len(ModelProperties) : ModelProperties[i].name = key
    ELSE 0

\* self.idName(model): the name of the first id property
idName == ModelProperties[CHOOSE i \in 1..Len(ModelProperties) :
                            /\ ModelProperties[i].id
                            /\ \A j \in 1..(i - 1) : ~ModelProperties[j].id].name

\* self.columnEscaped(model, property)
columnEscaped(property) == escapeName(property)

\* self.tableEscaped(model)
tableEscaped == escapeName(<<"T">>)

\* self.buildColumnType(prop), with convertTextType and convertNumberType
buildColumnType(prop) ==
    IF prop.type = "Number" THEN "INTEGER"
    ELSE IF prop.id THEN "VARCHAR(255)" ELSE "VARCHAR(512)"

\* self.buildFields(model, data): data is the sequence of the <<key, value>>
\* pairs of the object. A key that names no property and a column value that
\* is undefined are left out; a column value that is no ParameterizedSQL is
\* bound to a placeholder
RECURSIVE buildFields(_)
buildFields(data) ==
    IF data = <<>> THEN [names |-> <<>>, columnValues |-> <<>>, properties |-> <<>>]
    ELSE LET rest == buildFields(Tail(data))
             key == Head(data)[1]
             i == PropertyIndex(key)
             prop == ModelProperties[i]
             v == toColumnValue(prop, Head(data)[2])
         IN IF i = 0 \/ v = UndefinedValue THEN rest
            ELSE [names |-> <<columnEscaped(key)>> \o rest.names,
                  columnValues |->
                      << IF v = DefaultMarker THEN ParameterizedSQL(v.s, <<>>)
                         ELSE ParameterizedSQL(<<PLACEHOLDER>>, <<v>>) >>
                      \o rest.columnValues,
                  properties |-> <<prop>> \o rest.properties]

\* Informix.prototype.buildInsertDefaultValues(model)
buildInsertDefaultValues ==
    <<"VALUES(">>
    \o JoinTexts([i \in 1..Len(ModelProperties) |-> <<"DEFAULT">>], <<",">>)
    \o <<")">>

\* the items of the UPDATE SET list with the id fields kept in
RECURSIVE setItems_WithIds(_, _)
setItems_WithIds(fields, i) ==
    IF i > Len(fields.names) THEN <<>>
    ELSE << ParameterizedSQL(fields.names[i] \o <<"=", "(">>
                                \o fields.columnValues[i].sql \o <<")">>,
                             fields.columnValues[i].params) >>
         \o setItems_WithIds(fields, i + 1)

\* the items of the UPDATE SET list, from field i on: one per field that is
\* no id
RECURSIVE setItems(_, _)
setItems(fields, i) ==
    IF i > Len(fields.names) THEN <<>>
    ELSE (IF ~fields.properties[i].id
          THEN << ParameterizedSQL(fields.names[i] \o <<"=", "(">>
                                      \o fields.columnValues[i].sql \o <<")">>,
                                   fields.columnValues[i].params) >>
          ELSE <<>>)
         \o setItems(fields, i + 1)

\* the items of the VALUES table: each column value cast to the type of its
\* column, a comma after each but the last
castItems(fields) ==
    [i \in 1..Len(fields.names) |->
        ParameterizedSQL(<<"CAST (">> \o fields.columnValues[i].sql \o <<" AS ">>
                            \o <<buildColumnType(fields.properties[i]), ")">>
                            \o (IF i < Len(fields.names) THEN <<",">> ELSE <<>>),
                         fields.columnValues[i].params)]

\* the statement after each sql.merge of updateOrCreate(model, data), the
\* last one being the statement it executes
updateOrCreateSteps(data) ==
    LET fields == buildFields(data)
        fieldNames == fields.names
        sql0 == ParameterizedSQL(<<"MERGE INTO ", "SCHEMA", ".">> \o tableEscaped, <<>>)
        sql1 == merge(sql0, Text(<<"AS MT(">>))
        columns == join([i \in 1..Len(ModelProperties) |->
                            Text(columnEscaped(ModelProperties[i].name))], <<",">>)
        sql2 == merge(sql1, columns)
        sql3 == merge(sql2, Text(<<")">>))
        sql4 == merge(sql3, Text(<<"USING (SELECT * FROM TABLE( VALUES(">>))
        sql5 == merge(sql4, join(castItems(fields), <<" ">>))
        sql6 == merge(sql5, Text(<<"))) AS VT(">> \o JoinTexts(fieldNames, <<",">>)
                                   \o <<")">>))
        sql7 == merge(sql6, Text(<<"ON">>))
        sql8 == merge(sql7, Text(<<"(MT.", "\"">> \o idName \o <<"\"", " = VT.", "\"">>
                                   \o idName \o <<"\"", ")">>))
        sql9 == merge(sql8, Text(<<"WHEN NOT MATCHED THEN INSERT (">>
                                   \o JoinTexts(fieldNames, <<",">>) \o <<")">>))
        joined == join(fields.columnValues, <<",">>)
        values == [joined EXCEPT !.sql = <<"VALUES(">> \o @ \o <<")">>]
        sql10 == merge(sql9, values)
        inserted == IF Len(fieldNames) # 0
                    THEN <<sql0, sql1, sql2, sql3, sql4, sql5, sql6, sql7, sql8, sql9, sql10>>
                    ELSE <<sql0, merge(sql0, Text(buildInsertDefaultValues))>>
        sql11 == merge(inserted[Len(inserted)], Text(<<"WHEN MATCHED THEN UPDATE SET">>))
        sql12 == merge(sql11, join(setItems(fields, 1), <<",">>))
    IN inserted \o <<sql11, sql12>>

\* the statements updateOrCreate(model, data) makes to merge them in: the
\* items cast, the INSERT values, joined and wrapped, and the items set
updateOrCreateParts(data) ==
    LET fields == buildFields(data)
        joined == join(fields.columnValues, <<",">>)
    IN IF Len(fields.names) # 0
       THEN castItems(fields)
            \o <<joined, [joined EXCEPT !.sql = <<"VALUES(">> \o @ \o <<")">>]>>
            \o setItems(fields, 1)
       ELSE setItems(fields, 1)

\* what a caller may give as the value of a property
DataValues(key) ==
    IF key = <<"i", "d">> THEN { Num(5), Null }
    ELSE IF key = <<"n", "a", "m", "e">> THEN { Str(<<"a">>), UndefinedValue }
    ELSE IF key = <<"k">> THEN { Str(<<"b">>), Null }
    ELSE IF key = <<"a", "g", "e">> THEN { Num(7), Null }
    ELSE { Num(1) }

\* the keys of a data object: the properties of the model and one more
DataKeys == { ModelProperties[i].name : i \in 1..Len(ModelProperties) } \cup { <<"x">> }

\* the data objects: at most MaxFields keys, each once, in any order
DataObjects ==
    UNION { { d \in [1..n -> UNION { {<<key, v>> : v \in DataValues(key)} : key \in DataKeys }] :
                \A i, j \in 1..n : i # j => d[i][1] # d[j][1] } : n \in 0..MaxFields }

\* Informix.prototype.updateOrCreate(model, data, options, callback), up to
\* the call of self.execute: the statement it composes
updateOrCreateSql ==
    /\ mergeSql.pc = "called"
    /\ mergeSql' = [mergeSql EXCEPT !.pc = "built",
                                    !.steps = updateOrCreateSteps(mergeSql.data),
                                    !.parts = updateOrCreateParts(mergeSql.data)]
    /\ UNCHANGED <<self, ds, connection, conns, connects, execs, txs, ticks>>
    /\ UNCHANGED <<table, upserts, esc, col, lim, page>>

----------------------------------------------------------------------------
(* Specifications.  The connector is constructed, then the application     *)
(* calls it and the driver completes the calls it has pending.             *)

\* settings that name every connection setting
CompleteSettings == [n \in SettingNames \cup {"useLimitOffset"} |-> n # "useLimitOffset"]

\* the state new Informix(settings) leaves
Constructed(settings) ==
    /\ self = Informix(settings)
    /\ ds = [connecting |-> FALSE, connected |-> FALSE, errors |-> 0]
    /\ connection = 0
    /\ conns = <<>>
    /\ connects = <<>>
    /\ execs = <<>>
    /\ txs = <<>>
    /\ ticks = <<>>
    /\ table = EmptyTable
    /\ upserts = <<>>
    /\ lim = NoCall
    /\ page = NoCall
    /\ mergeSql = NoCall
    /\ esc = NoCall
    /\ col = NoCall

(* Spec: the transaction manager *)

Init == Constructed(CompleteSettings)

Next ==
    \/ \E level \in IsolationLevels : beginTransaction(level)
    \/ beginTransactionTick
    \/ \E t \in 1..MaxTx, err \in {NoError, "open failed"} : transactionOpened(t, err)
    \/ \E t \in 1..MaxTx, err \in {NoError, "begin failed"} : transactionBegun(t, err)
    \/ \E t \in 1..MaxTx, err \in {NoError, "isolation failed"} : isolationSet(t, err)
    \/ \E t \in 1..MaxTx : commit(t)
    \/ \E t \in 1..MaxTx : rollback(t)
    \/ \E t \in 1..MaxTx, err \in {NoError, "commit failed"} : commitTransactionDone(t, err)
    \/ \E t \in 1..MaxTx, err \in {NoError, "rollback failed"} : rollbackTransactionDone(t, err)
    \/ \E t \in 1..MaxTx, err \in {NoError, "close failed"} : closed(t, err)

Spec == Init /\ [][Next]_vars

(* SpecConnect: connect, under every choice of settings *)

InitConnect == \E s \in SettingsChoices : Constructed(s)

NextConnect ==
    \/ \E hasCb \in BOOLEAN : connect(hasCb)
    \/ \E k \in 1..MaxConnect, err \in {NoError, "open failed"} : connectOpened(k, err)

SpecConnect == InitConnect /\ [][NextConnect]_vars

(* SpecExec: statements on the default connection and on the connection of *)
(* a transaction.  It starts where beginTransaction(READ_COMMITTED) has     *)
(* handed its connection, connection 1, to the application.                *)

ActiveTx ==
    [NewTx(READ_COMMITTED) EXCEPT !.st = "active", !.conn = 1, !.opens = 1,
                                  !.beginErr = NoError, !.cbCount = 1,
                                  !.cbErr = NoError, !.cbConn = 1]

InitExec ==
    /\ self \in {Informix(s) : s \in {c \in SettingsChoices : \A n \in SettingNames : c[n]}}
    /\ ds = [connecting |-> FALSE, connected |-> FALSE, errors |-> 0]
    /\ connection = 0
    /\ conns = <<NewConnection>>
    /\ connects = <<>>
    /\ execs = <<>>
    /\ txs = <<ActiveTx>>
    /\ ticks = <<>>
    /\ table = EmptyTable
    /\ upserts = <<>>
    /\ lim = NoCall
    /\ page = NoCall
    /\ mergeSql = NoCall
    /\ esc = NoCall
    /\ col = NoCall

NextExec ==
    \/ connect(TRUE)
    \/ \E k \in 1..MaxConnect, err \in {NoError, "open failed"} : connectOpened(k, err)
    \/ \E target \in 0..1, sql \in SqlTexts : executeSQL(target, sql)
    \/ \E e \in 1..MaxExec, err \in {NoError, "query failed"}, more \in BOOLEAN :
          queryDone(e, err, more)
    \/ executeSQLTick

SpecExec == InitExec /\ [][NextExec]_vars

(* SpecUpsert: updateOrCreate on the default connection, which connect has *)
(* opened as connection 1                                                  *)

InitUpsert ==
    /\ self = Informix(CompleteSettings)
    /\ ds = [connecting |-> FALSE, connected |-> TRUE, errors |-> 0]
    /\ connection = 1
    /\ conns = <<NewConnection>>
    /\ connects = <<[hasCb |-> TRUE, st |-> "done", opens |-> 1,
                     cbCount |-> 1, cbErr |-> NoError, cbCon |-> 1]>>
    /\ execs = <<>>
    /\ txs = <<>>
    /\ ticks = <<>>
    /\ table = EmptyTable
    /\ upserts = <<>>
    /\ lim = NoCall
    /\ page = NoCall
    /\ mergeSql = NoCall
    /\ esc = NoCall
    /\ col = NoCall

NextUpsert ==
    \/ \E id \in Ids, name \in Names : updateOrCreate(id, name)
    \/ \E e \in 1..MaxExec, err \in {NoError, "query failed"}, more \in BOOLEAN :
          queryDone(e, err, more)
    \/ executeSQLTick

SpecUpsert == InitUpsert /\ [][NextUpsert]_vars

(* SpecEscape: escapeName on every identifier *)

InitEscape ==
    /\ \E name \in Identifiers : esc = [pc |-> "called", name |-> name, result |-> <<>>]
    /\ self = Informix(CompleteSettings)
    /\ ds = [connecting |-> FALSE, connected |-> FALSE, errors |-> 0]
    /\ connection = 0
    /\ conns = <<>>
    /\ connects = <<>>
    /\ execs = <<>>
    /\ txs = <<>>
    /\ ticks = <<>>
    /\ table = EmptyTable
    /\ upserts = <<>>
    /\ lim = NoCall
    /\ page = NoCall
    /\ mergeSql = NoCall
    /\ col = NoCall

NextEscape == escapeNameCall

SpecEscape == InitEscape /\ [][NextEscape]_vars

(* SpecColumn: a value of every property type, or null, written to its *)
(* column and read back                                                *)

InitColumn ==
    /\ \E type \in PropertyTypes, id \in BOOLEAN :
         \E val \in ValuesOf(type) \cup {Null} :
            col = [pc |-> "called", prop |-> [type |-> type, id |-> id],
                   val |-> val, db |-> Null, out |-> Null]
    /\ self = Informix(CompleteSettings)
    /\ ds = [connecting |-> FALSE, connected |-> FALSE, errors |-> 0]
    /\ connection = 0
    /\ conns = <<>>
    /\ connects = <<>>
    /\ execs = <<>>
    /\ txs = <<>>
    /\ ticks = <<>>
    /\ table = EmptyTable
    /\ upserts = <<>>
    /\ lim = NoCall
    /\ page = NoCall
    /\ mergeSql = NoCall
    /\ esc = NoCall

NextColumn ==
    \/ toColumnValueCall
    \/ fromColumnValueCall

SpecColumn == InitColumn /\ [][NextColumn]_vars

(* SpecLimit: buildLimit on every pair of arguments *)

InitLimit ==
    /\ \E limit \in LimitValues, offset \in LimitValues :
         lim = [pc |-> "called", limit |-> limit, offset |-> offset, clause |-> <<>>]
    /\ self = Informix(CompleteSettings)
    /\ ds = [connecting |-> FALSE, connected |-> FALSE, errors |-> 0]
    /\ connection = 0
    /\ conns = <<>>
    /\ connects = <<>>
    /\ execs = <<>>
    /\ txs = <<>>
    /\ ticks = <<>>
    /\ table = EmptyTable
    /\ upserts = <<>>
    /\ esc = NoCall
    /\ col = NoCall
    /\ page = NoCall
    /\ mergeSql = NoCall

NextLimit == buildLimitCall

SpecLimit == InitLimit /\ [][NextLimit]_vars

(* SpecPage: applyPagination on every filter *)

InitPage ==
    /\ \E limit \in FilterValues, offset \in FilterValues, skip \in FilterValues :
         page = [pc |-> "called",
                 filter |-> [limit |-> limit, offset |-> offset, skip |-> skip],
                 stmt |-> ParameterizedSQL(SelectText, <<>>)]
    /\ self = Informix(CompleteSettings)
    /\ ds = [connecting |-> FALSE, connected |-> FALSE, errors |-> 0]
    /\ connection = 0
    /\ conns = <<>>
    /\ connects = <<>>
    /\ execs = <<>>
    /\ txs = <<>>
    /\ ticks = <<>>
    /\ table = EmptyTable
    /\ upserts = <<>>
    /\ esc = NoCall
    /\ col = NoCall
    /\ lim = NoCall
    /\ mergeSql = NoCall

NextPage == applyPaginationCall

SpecPage == InitPage /\ [][NextPage]_vars

(* SpecMerge: the statement updateOrCreate composes, for every data object *)

InitMerge ==
    /\ \E data \in DataObjects : mergeSql = [pc |-> "called", data |-> data, steps |-> <<>>, parts |-> <<>>]
    /\ self = Informix(CompleteSettings)
    /\ ds = [connecting |-> FALSE, connected |-> FALSE, errors |-> 0]
    /\ connection = 0
    /\ conns = <<>>
    /\ connects = <<>>
    /\ execs = <<>>
    /\ txs = <<>>
    /\ ticks = <<>>
    /\ table = EmptyTable
    /\ upserts = <<>>
    /\ esc = NoCall
    /\ col = NoCall
    /\ lim = NoCall
    /\ page = NoCall

NextMerge == updateOrCreateSql

SpecMerge == InitMerge /\ [][NextMerge]_vars

----------------------------------------------------------------------------
(* Properties *)

IsError(e) == e # NoError /\ e # Undefined

Transactions == 1..Len(txs)

\* C1: beginTransaction with an isolation level other than READ_COMMITTED
\* and SERIALIZABLE, an absent one included, never calls open or anything
\* else on the driver, and the callback it schedules gets, once, an error
\* with statusCode 400 and no connection.
C1_InvalidIsolationRejected ==
    /\ \A t \in Transactions :
         txs[t].iso \notin {READ_COMMITTED, SERIALIZABLE} =>
           /\ txs[t].opens = 0
           /\ txs[t].conn = 0
           /\ txs[t].st \in {"rejecting", "rejected"}
           /\ txs[t].st = "rejecting" =>
                /\ txs[t].cbCount = 0
                /\ \E i \in 1..Len(ticks) : ticks[i] = [kind |-> "beginTransaction", id |-> t]
           /\ txs[t].st = "rejected" =>
                /\ txs[t].cbCount = 1
                /\ txs[t].cbStatus = 400
                /\ IsError(txs[t].cbErr)
                /\ txs[t].cbConn = 0
    /\ Len(conns) <= Cardinality({t \in Transactions : txs[t].opens = 1})

C1_Witness ==
    \E t \in Transactions :
      /\ txs[t].iso = Undefined
      /\ txs[t].st = "rejected"
      /\ txs[t].cbStatus = 400
      /\ \E u \in Transactions : txs[u].iso = "invalid" /\ txs[u].st = "rejected"

\* C2: at most one query is in flight on a connection at any time, and the
\* queries reach the driver in the order the executeSQL calls were made.
C2_OneQueryInFlight ==
    \A c \in 1..Len(conns) :
      /\ Cardinality({e \in 1..Len(execs) :
                        execs[e].conn = c /\ execs[e].st = "inflight"}) <= 1
      /\ \A i, j \in 1..Len(conns[c].issued) :
           i < j => conns[c].issued[i] < conns[c].issued[j]

\* C3: executeSQL calls the caller's callback exactly once, whatever the
\* driver reports: never twice, and once when the query is done.
C3_CallbackExactlyOnce ==
    \A e \in 1..Len(execs) :
      /\ execs[e].cbCount <= 1
      /\ execs[e].st = "done" => execs[e].cbCount = 1

\* C4: once a transaction that was given a connection is committed, rolled
\* back or failed (the isolation statement, the commit or the rollback
\* failed), close has been called on its connection exactly once.
C4_ClosedExactlyOnce ==
    \A t \in Transactions :
      txs[t].st \in {"failed", "finFailed", "closing", "committed", "rolledBack"} =>
        conns[txs[t].conn].closeCalls = 1

\* C5: a failure the driver reports reaches the caller's callback as that
\* error: beginTransaction does not report success, with a connection, when
\* the native beginTransaction failed.
C5_ErrorsPropagate ==
    \A t \in Transactions :
      /\ txs[t].st = "openFailed" => txs[t].cbErr = "open failed"
      /\ (IsError(txs[t].beginErr) /\ txs[t].cbCount > 0) => IsError(txs[t].cbErr)
      /\ IsError(txs[t].finErr) => txs[t].finCbErr = txs[t].finErr

MissingSetting(names) == \E n \in names : ~self.settings[n]

ConnectRefused ==
    /\ ds = [connecting |-> FALSE, connected |-> FALSE, errors |-> 0]
    /\ connection = 0
    /\ conns = <<>>
    /\ \A k \in 1..Len(connects) :
         /\ connects[k].opens = 0
         /\ connects[k].st = "refused"
         /\ connects[k].cbCount = IF connects[k].hasCb THEN 1 ELSE 0

C7_CloseAfterFinalization ==
    \A t \in Transactions :
      txs[t].conn # 0 =>
        LET c == conns[txs[t].conn]
        IN /\ txs[t].finErr = Undefined => c.closeCalls = 0 /\ txs[t].finCbCount = 0
           /\ IsError(txs[t].finErr) =>
                /\ c.closeCalls = 0
                /\ ~c.closed
                /\ txs[t].finCbCount = 1
                /\ txs[t].finCbErr = txs[t].finErr
           /\ txs[t].finErr = NoError =>
                /\ c.closeCalls = 1
                /\ txs[t].finCbCount = IF c.closed THEN 1 ELSE 0

C7_Witness ==
    /\ \E t \in Transactions :
         /\ txs[t].st = "committed"
         /\ conns[txs[t].conn].closed
         /\ txs[t].finCbCount = 1
    /\ \E t \in Transactions :
         /\ txs[t].st = "finFailed"
         /\ txs[t].op = "rollback"
         /\ txs[t].finCbErr = "rollback failed"

\* C8: updateOrCreate reports isNewInstance = true exactly when the merge
\* inserted the row, the id not being in the table, and false when it
\* updated it.
C8_IsNewInstance ==
    \A u \in 1..Len(upserts) :
      (upserts[u].cbCount > 0 /\ upserts[u].cbErr = NoError) =>
        upserts[u].isNewInstance = ~upserts[u].existed

RECURSIVE NoLoneQuote(_)
NoLoneQuote(s) ==
    IF s = <<>> THEN TRUE
    ELSE IF Head(s) = Quote
    THEN Len(s) >= 2 /\ s[2] = Quote /\ NoLoneQuote(Tail(Tail(s)))
    ELSE NoLoneQuote(Tail(s))

\* C9: for a non-empty identifier escapeName returns the identifier between
\* double quotes with every double quote inside doubled: no double quote
\* between the outer ones stands alone.
C9_QuotesDoubled ==
    (esc.pc = "returned" /\ esc.name # <<>>) =>
      /\ esc.result = <<Quote>> \o ReplaceQuotes(esc.name) \o <<Quote>>
      /\ NoLoneQuote(SubSeq(esc.result, 2, Len(esc.result) - 1))

\* C10: a value of a supported type written with toColumnValue and read
\* back with fromColumnValue is the value; null is read back as null.
C10_RoundTrip ==
    col.pc = "loaded" => col.out = col.val

\* the value the claim gives a limit or an offset: the integer itself, and
\* zero for an absent value and for a value that is not a number
ClaimedNumber(val) == IF val.t = "number" THEN val.n ELSE 0

\* C11: for non-negative integers limit and offset, buildLimit returns the
\* empty string when both are zero, 'FETCH FIRST <limit> ROWS ONLY' when only
\* limit is non-zero and 'OFFSET <offset>' when only offset is non-zero; a
\* limit or an offset that is absent or not a number counts as zero.
C11_BuildLimit ==
    (/\ lim.pc = "returned"
     /\ lim.limit \in Naturals0 \cup NotNumbers
     /\ lim.offset \in Naturals0 \cup NotNumbers) =>
      LET limit == ClaimedNumber(lim.limit)
          offset == ClaimedNumber(lim.offset)
      IN /\ (limit = 0 /\ offset = 0) => lim.clause = <<>>
         /\ (limit # 0 /\ offset = 0) =>
              lim.clause = FetchFirstText \o NumberToString(limit) \o RowsOnlyText
         /\ (limit = 0 /\ offset # 0) =>
              lim.clause = OffsetText \o NumberToString(offset)

\* the offset and the limit the claim says applyPagination uses
EffectiveOffset(filter) ==
    IF filter.offset # UndefinedValue THEN filter.offset
    ELSE IF filter.skip # UndefinedValue THEN filter.skip
    ELSE Num(0)

EffectiveLimit(filter) ==
    IF filter.limit # UndefinedValue THEN filter.limit ELSE Num(0)

\* C12: the clause applyPagination merges into the statement is the clause
\* of the filter's limit (0 when absent) and of the filter's offset whenever
\* the offset is present, an offset of 0 included; skip counts only when the
\* offset is absent, and the offset is 0 when both are absent.
C12_EffectiveOffset ==
    page.pc = "returned" =>
      page.stmt = merge(ParameterizedSQL(SelectText, <<>>),
                        ParameterizedSQL(buildLimit(EffectiveLimit(page.filter),
                                                    EffectiveOffset(page.filter)),
                                         <<>>))

\* the number of placeholders of a text
Placeholders(text) == Cardinality({ i \in 1..Len(text) : text[i] = PLACEHOLDER })

\* where a piece first stands in a text: past the end when it does not
IndexOf(text, piece) ==
    IF \E i \in 1..Len(text) : text[i] = piece
    THEN CHOOSE i \in 1..Len(text) : text[i] = piece /\ \A j \in 1..(i - 1) : text[j] # piece
    ELSE Len(text) + 1

\* the text from piece `from` up to piece `to`
Between(text, from, to) == SubSeq(text, IndexOf(text, from), IndexOf(text, to) - 1)

Contains(text, sub) ==
    \E i \in 0..(Len(text) - Len(sub)) : SubSeq(text, i + 1, i + Len(sub)) = sub

\* the values of a data object that are bound to a parameter, in the order
\* of its keys: those of the properties of the model whose column value is
\* neither undefined nor DEFAULT; with nonId, those of the id properties
\* are left out
RECURSIVE BoundValues(_, _)
BoundValues(data, nonId) ==
    IF data = <<>> THEN <<>>
    ELSE LET i == PropertyIndex(Head(data)[1])
             v == toColumnValue(ModelProperties[i], Head(data)[2])
         IN (IF /\ i # 0
                /\ v \notin {UndefinedValue, DefaultMarker}
                /\ ~(nonId /\ ModelProperties[i].id)
             THEN <<v>> ELSE <<>>)
            \o BoundValues(Tail(data), nonId)

IdColumns == { columnEscaped(ModelProperties[i].name) :
                 i \in { j \in 1..Len(ModelProperties) : ModelProperties[j].id } }

InsertPiece == "WHEN NOT MATCHED THEN INSERT ("
UpdatePiece == "WHEN MATCHED THEN UPDATE SET"

\* C13: in the statement after every merge of updateOrCreate, in every
\* statement it merges in and in the final statement, the text has as many
\* placeholders as there are parameters; the parameters of the final
\* statement are the values cast, in the order of the fields, then the values
\* inserted, in that order, then the values set, those of the fields that are
\* no id, in that order, with as many placeholders in the VALUES table, in
\* the INSERT clause and in the UPDATE SET list; no id column is set.
C13_PlaceholdersMatchParams ==
    mergeSql.pc = "built" =>
      LET final == mergeSql.steps[Len(mergeSql.steps)]
          all == BoundValues(mergeSql.data, FALSE)
          set == BoundValues(mergeSql.data, TRUE)
          hasFields == Contains(final.sql, <<InsertPiece>>)
      IN /\ \A i \in 1..Len(mergeSql.steps) :
              Placeholders(mergeSql.steps[i].sql) = Len(mergeSql.steps[i].params)
         /\ \A i \in 1..Len(mergeSql.parts) :
              Placeholders(mergeSql.parts[i].sql) = Len(mergeSql.parts[i].params)
         /\ final.params = IF hasFields THEN all \o all \o set ELSE <<>>
         /\ hasFields =>
              /\ Placeholders(Between(final.sql, "MERGE INTO ", "ON")) = Len(all)
              /\ \A i \in 1..Len(final.sql) :
                   (i < IndexOf(final.sql, "ON") /\ final.sql[i] = PLACEHOLDER) =>
                      final.sql[i - 1] = "CAST ("
              /\ Placeholders(Between(final.sql, "ON", InsertPiece)) = 0
              /\ Placeholders(Between(final.sql, InsertPiece, UpdatePiece)) = Len(all)
         /\ Placeholders(Between(final.sql, UpdatePiece, "no such piece")) = Len(set)
         /\ \A c \in IdColumns :
              ~Contains(Between(final.sql, UpdatePiece, "no such piece"), c \o <<"=">>)

C13_Witness ==
    /\ mergeSql.pc = "built"
    /\ mergeSql.data = << << <<"n", "a", "m", "e">>, Str(<<"a">>) >>,
                          << <<"i", "d">>, Num(5) >>,
                          << <<"a", "g", "e">>, Num(7) >> >>
    /\ mergeSql.steps[Len(mergeSql.steps)].params =
          << Str(<<"a">>), Num(5), Num(7), Str(<<"a">>), Num(5), Num(7),
             Str(<<"a">>), Num(7) >>
    /\ Len(mergeSql.steps) = 13

====
